---- MODULE Spec2Model ----
(***************************************************************************)
(* Model of the CSV ingestion pipeline (app/utils/file_handler.py,          *)
(* app/utils/state.py, app/utils/validators.py) and of the summary reader   *)
(* (app/routes/summary.py).                                                 *)
(*                                                                          *)
(* Upload requests are handled by concurrent threads; every access to the   *)
(* shared files (manifest, master dataset, lock file) is one step.  Work on *)
(* request-local data (reading the body, hashing, parsing, validating) is   *)
(* folded into the step of the shared access that follows it.               *)
(***************************************************************************)
EXTENDS Integers, Sequences, FiniteSets, TLC

\* ------------------------------------------------------------------ bounds

\* number of upload requests the model lets arrive
NumUploads == 2

\* MAX_BYTES (200 MiB in the code) and the size of one read (1 MiB), scaled down
MAX_BYTES == 3
CHUNK == 2

Uploads == 1..NumUploads

\* ------------------------------------------------------------------ inputs

\* "no record" (find_by_checksum's None), "no such file", "no path" (DATASET_PATH's None)
None == [status |-> "none"]
NoFile == [exists |-> FALSE]
NoPath == <<"none", 0>>

REQUIRED_COLUMNS ==
    {"transaction_id", "user_id", "product_id", "timestamp", "transaction_amount"}

\* A raw CSV row, as far as validation looks at it: whether all five required
\* fields are non-empty after trimming, and whether amount and timestamp coerce.
RawRow(present, coercible) == [present |-> present, coercible |-> coercible]

\* The request bodies the model draws from.  size is in chunks; parse says whether
\* pd.read_csv accepts the bytes; headers are the canonical fields the header line
\* resolves to; rows are the data rows.
Bytes == {"big", "empty", "garbage", "nocol", "hdronly", "allbad", "A", "B"}

Body(b) ==
    CASE b = "big"     -> [size |-> 4, parse |-> TRUE, headers |-> REQUIRED_COLUMNS,
                           rows |-> << RawRow(TRUE, TRUE) >>]
      [] b = "empty"   -> [size |-> 0, parse |-> FALSE, headers |-> {}, rows |-> << >>]
      [] b = "garbage" -> [size |-> 1, parse |-> FALSE, headers |-> {}, rows |-> << >>]
      [] b = "nocol"   -> [size |-> 1, parse |-> TRUE,
                           headers |-> {"transaction_id", "user_id"},
                           rows |-> << RawRow(TRUE, TRUE) >>]
      [] b = "hdronly" -> [size |-> 1, parse |-> TRUE, headers |-> REQUIRED_COLUMNS,
                           rows |-> << >>]
      [] b = "allbad"  -> [size |-> 1, parse |-> TRUE, headers |-> REQUIRED_COLUMNS,
                           rows |-> << RawRow(TRUE, FALSE), RawRow(FALSE, TRUE) >>]
      [] b = "A"       -> [size |-> 3, parse |-> TRUE, headers |-> REQUIRED_COLUMNS,
                           rows |-> << RawRow(TRUE, TRUE), RawRow(TRUE, FALSE),
                                       RawRow(TRUE, TRUE) >>]
      [] b = "B"       -> [size |-> 2, parse |-> TRUE, headers |-> REQUIRED_COLUMNS,
                           rows |-> << RawRow(FALSE, TRUE), RawRow(TRUE, TRUE) >>]

EndsWithAnything(f) == TRUE

\* upload.filename.lower().endswith(".csv")
EndsWithCsv(f) == f \in {"a.csv", "b.CSV"}

\* The (filename, bytes) pairs a request may carry.
Inputs ==
    {<<"a.csv", b>> : b \in Bytes} \cup {<<"b.CSV", "A">>, <<"readme.md", "A">>, <<"", "B">>}

\* ------------------------------------------------------------------ pure helpers

\* sha256_bytes: a collision-free digest of the raw bytes
sha256_bytes(b) == <<"sha256", b>>

\* _read_upload_into_memory: chunk by chunk, failing once the total passes MAX_BYTES
RECURSIVE ReadChunks(_, _)
ReadChunks(left, total) ==
    IF left = 0 THEN "ok"
    ELSE LET n == IF left < CHUNK THEN left ELSE CHUNK
         IN  IF total + n > MAX_BYTES THEN "FILE_TOO_LARGE"
             ELSE ReadChunks(left - n, total + n)

_read_upload_into_memory(b) == ReadChunks(Body(b).size, 0)

\* resolve_required_columns_from_df: the first canonical field without a header
resolve_required_columns_from_df(b) ==
    IF REQUIRED_COLUMNS \subseteq Body(b).headers THEN "ok" ELSE "MISSING_COLUMNS"

\* ensure_not_empty_df
ensure_not_empty_df(b) == IF Body(b).rows = << >> THEN "EMPTY_CSV" ELSE "ok"

\* indices of the rows of b that satisfy keep, in order
RECURSIVE FilterIdx(_, _, _)
FilterIdx(rows, i, keepCoercible) ==
    IF i > Len(rows) THEN << >>
    ELSE (IF rows[i].present /\ (keepCoercible => rows[i].coercible)
             THEN << i >> ELSE << >>) \o FilterIdx(rows, i + 1, keepCoercible)

\* drop_rows_with_empty_requireds
drop_rows_with_empty_requireds(b) == FilterIdx(Body(b).rows, 1, FALSE)

\* normalise_dataframe: the surviving rows, each named by its bytes and row number
normalise_dataframe(b) ==
    LET idx == FilterIdx(Body(b).rows, 1, TRUE)
    IN  [i \in 1..Len(idx) |-> <<b, idx[i]>>]

\* What the validating part of save_upload_to_disk raises: the error type, its
\* detail, and whether the raising site appends its own failed record first.
Err(type, detail, own) == [type |-> type, detail |-> detail, own |-> own]
Ok == Err("ok", "", FALSE)

ValidateSchemaOnly(b) ==
    IF ~Body(b).parse
        THEN Err("UNREADABLE_CSV", "parser error", TRUE)
    ELSE IF resolve_required_columns_from_df(b) # "ok"
        THEN Err("MISSING_COLUMNS", "missing", FALSE)
    ELSE Ok

\* The validating part of save_upload_to_disk: the first error met, or Ok.
Validate(b) ==
    IF ~Body(b).parse
        THEN Err("UNREADABLE_CSV", "parser error", TRUE)
    ELSE IF resolve_required_columns_from_df(b) # "ok"
        THEN Err("MISSING_COLUMNS", "missing", FALSE)
    ELSE IF ensure_not_empty_df(b) # "ok"
        THEN Err("EMPTY_CSV", "CSV has headers but zero rows", FALSE)
    ELSE IF normalise_dataframe(b) = << >>
        THEN Err("EMPTY_CSV", "All rows invalid after coercion", FALSE)
    ELSE IF Len(normalise_dataframe(b)) = 0
        THEN Err("EMPTY_CSV", "No valid rows after validation", TRUE)
    ELSE Ok

\* ------------------------------------------------------------------ manifest

\* rows_appended of a failed record (JSON null)
NullRows == 0 - 1

\* One manifest line.  by names the request that wrote the line; the program does
\* not store it and never reads it.
Record(status, checksum, rows, error, by) ==
    [status |-> status, checksum_sha256 |-> checksum, rows_appended |-> rows,
     error |-> error, by |-> by]

\* find_by_checksum: the first record with this checksum and status ready
RECURSIVE FindFrom(_, _, _)
FindFrom(m, i, checksum) ==
    IF i > Len(m) THEN None
    ELSE IF m[i].checksum_sha256 = checksum /\ m[i].status = "ready" THEN m[i]
    ELSE FindFrom(m, i + 1, checksum)

find_by_checksum_wrong_key(m, checksum) == None

find_by_checksum_any_status(m, checksum) ==
    IF \E i \in 1..Len(m) : m[i].checksum_sha256 = checksum
    THEN m[CHOOSE i \in 1..Len(m) : m[i].checksum_sha256 = checksum]
    ELSE None

find_by_checksum(m, checksum) == FindFrom(m, 1, checksum)

\* ------------------------------------------------------------------ state

VARIABLES
    pc,            \* pc[u]: where request u is in save_upload_to_disk
    req,           \* req[u]: the filename and bytes of request u
    result,        \* result[u]: what the request returned or raised
    combined,      \* combined[u]: the merged frame held in memory during the merge
    files,         \* the data directory: path -> file content
    lock,          \* holder of data/upload.lock
    manifest,      \* data/manifest.jsonl, one record per line
    DATASET_PATH,  \* state.DATASET_PATH of the server process
    seen,          \* outcome of the last summary query
    rd,            \* the byte reader of one request, followed chunk by chunk
    fn             \* one application of a pure helper: its argument and its result

vars == <<pc, req, result, combined, files, lock, manifest, DATASET_PATH, seen, rd, fn>>

MASTER_PARQUET == <<"transactions.parquet", 0>>

tmp_parquet_in_place(u) == MASTER_PARQUET

\* Path(td) / "merged.parquet", td a fresh directory under data/
tmp_parquet(u) == <<"merged.parquet", u>>

Paths == {MASTER_PARQUET} \cup {<<"merged.parquet", u>> : u \in Uploads}

\* A Parquet file: its rows, and whether it is torn (only partly written, unreadable)
File(rows, torn) == [exists |-> TRUE, rows |-> rows, torn |-> torn]

bytesOf(u) == req[u][2]

\* no reader running, no helper applied
RdIdle == [phase |-> "idle"]
FnIdle == [op |-> "none"]

InitServer ==
    /\ pc = [u \in Uploads |-> "idle"]
    /\ req = [u \in Uploads |-> <<"", "empty">>]
    /\ result = [u \in Uploads |-> "none"]
    /\ combined = [u \in Uploads |-> << >>]
    /\ files = [p \in Paths |-> NoFile]
    /\ lock = 0
    /\ manifest = << >>
    /\ DATASET_PATH = NoPath
    /\ seen = "none"

Init == InitServer /\ rd = RdIdle /\ fn = FnIdle

\* ------------------------------------------------------------------ uploads

Finish(u, r) ==
    /\ pc' = [pc EXCEPT ![u] = "done"]
    /\ result' = [result EXCEPT ![u] = r]

append_ingest_truncating(m, status, checksum, rows, error, by) ==
    << Record(status, checksum, rows, error, by) >>

\* append_ingest
append_ingest(m, status, checksum, rows, error, by) ==
    Append(m, Record(status, checksum, rows, error, by))

\* save_upload_to_disk, lines 87-97: suffix check, capped read, empty check, checksum.
\* Requests are numbered in the order they arrive.
StartFrom(u, inputs) ==
    /\ pc[u] = "idle"
    /\ u > 1 => pc[u - 1] # "idle"
    /\ \E in \in inputs :
         /\ req' = [req EXCEPT ![u] = in]
         /\ IF ~EndsWithCsv(in[1]) THEN Finish(u, "INVALID_FILE_TYPE")
            ELSE IF _read_upload_into_memory(in[2]) # "ok" THEN Finish(u, "FILE_TOO_LARGE")
            ELSE IF Body(in[2]).size = 0 THEN Finish(u, "EMPTY_CSV")
            ELSE /\ pc' = [pc EXCEPT ![u] = "find"]
                 /\ UNCHANGED result
    /\ UNCHANGED <<combined, files, lock, manifest, DATASET_PATH, seen, rd, fn>>

\* a request carrying any of the inputs
Start(u) == StartFrom(u, Inputs)

AfterValidationSwallowed(v) == "lock"

AfterValidationUnrecorded(v) == IF v.type = "ok" THEN "lock" ELSE "done"

\* where save_upload_to_disk goes after validating: on to the merge, or to the handler
\* of what was raised
AfterValidation(v) ==
    IF v.type = "ok" THEN "lock" ELSE IF v.own THEN "inner_except" ELSE "except"

\* save_upload_to_disk, lines 99-127: the duplicate short-circuit, then validation
Find(u) ==
    /\ pc[u] = "find"
    /\ IF find_by_checksum(manifest, sha256_bytes(bytesOf(u))) # None
       THEN Finish(u, "duplicate")
       ELSE LET v == Validate(bytesOf(u))
            IN  /\ pc' = [pc EXCEPT ![u] = AfterValidation(v)]
                /\ result' = [result EXCEPT ![u] = IF v.type = "ok" THEN "none" ELSE v.type]
    /\ UNCHANGED <<req, combined, files, lock, manifest, DATASET_PATH, seen, rd, fn>>

\* lines 110-112 and 125-127: the raising site's own failed record, then raise_error
InnerExcept(u) ==
    /\ pc[u] = "inner_except"
    /\ manifest' = append_ingest(manifest, "failed", sha256_bytes(bytesOf(u)), NullRows,
                                 Validate(bytesOf(u)).detail, u)
    /\ pc' = [pc EXCEPT ![u] = "except"]
    /\ UNCHANGED <<req, result, combined, files, lock, DATASET_PATH, seen, rd, fn>>

\* lines 137-139: except Exception: append a failed record and re-raise
Except(u) ==
    /\ pc[u] = "except"
    /\ manifest' = append_ingest(manifest, "failed", sha256_bytes(bytesOf(u)), NullRows,
                                 result[u], u)
    /\ pc' = [pc EXCEPT ![u] = "done"]
    /\ UNCHANGED <<req, result, combined, files, lock, DATASET_PATH, seen, rd, fn>>

\* ------------------------------------------------------------------ the merge

upload_lock_free_always == TRUE

\* upload_lock: FileLock(LOCK_PATH) can be taken when nobody holds it
upload_lock_free == lock = 0

\* os.replace(src, dst)
os_replace(fs, src, dst) ==
    IF src = dst THEN fs ELSE [fs EXCEPT ![dst] = fs[src], ![src] = NoFile]

concat_new_first(existing, new) == new \o existing

\* pl.concat([existing, new_pl], how="vertical_relaxed")
concat(existing, new) == existing \o new

AcquireEarly(u) ==
    /\ pc[u] = "find"
    /\ lock = 0
    /\ lock' = u
    /\ UNCHANGED <<pc, req, result, combined, files, manifest, DATASET_PATH, seen, rd, fn>>

\* _append_to_master_parquet, line 69: with upload_lock()
Acquire(u) ==
    /\ pc[u] = "lock"
    /\ upload_lock_free
    /\ lock' = u
    /\ pc' = [pc EXCEPT ![u] = "read"]
    /\ UNCHANGED <<req, result, combined, files, manifest, DATASET_PATH, seen, rd, fn>>

RaiseHoldingLock(u) ==
    /\ files' = [files EXCEPT ![<<"merged.parquet", u>>] = NoFile]
    /\ lock' = lock
    /\ combined' = [combined EXCEPT ![u] = << >>]
    /\ pc' = [pc EXCEPT ![u] = "except"]
    /\ result' = [result EXCEPT ![u] = "INTERNAL_ERROR"]

\* an exception inside the with blocks: the temporary directory is removed, the
\* lock released, and the exception reaches the handler of save_upload_to_disk
Raise(u) ==
    /\ files' = [files EXCEPT ![<<"merged.parquet", u>>] = NoFile]
    /\ lock' = IF lock = u THEN 0 ELSE lock
    /\ combined' = [combined EXCEPT ![u] = << >>]
    /\ pc' = [pc EXCEPT ![u] = "except"]
    /\ result' = [result EXCEPT ![u] = "INTERNAL_ERROR"]

\* lines 73-76: read the existing file if there is one, and concatenate
ReadConcat(u) ==
    /\ pc[u] = "read"
    /\ LET new_pl == normalise_dataframe(bytesOf(u))
           master == files[MASTER_PARQUET]
       IN  IF master.exists /\ master.torn
           THEN Raise(u)
           ELSE /\ combined' = [combined EXCEPT ![u] =
                                   IF master.exists THEN concat(master.rows, new_pl)
                                   ELSE new_pl]
                /\ pc' = [pc EXCEPT ![u] = "write"]
                /\ UNCHANGED <<result, files, lock>>
    /\ UNCHANGED <<req, manifest, DATASET_PATH, seen, rd, fn>>

\* write_parquet(tmp_parquet), first part: the file exists but is incomplete
WriteBegin(u) ==
    /\ pc[u] = "write"
    /\ files' = [files EXCEPT ![tmp_parquet(u)] =
                    File(SubSeq(combined[u], 1, Len(combined[u]) \div 2), TRUE)]
    /\ pc' = [pc EXCEPT ![u] = "flush"]
    /\ UNCHANGED <<req, result, combined, lock, manifest, DATASET_PATH, seen, rd, fn>>

\* write_parquet(tmp_parquet), completed
WriteEnd(u) ==
    /\ pc[u] = "flush"
    /\ files' = [files EXCEPT ![tmp_parquet(u)] = File(combined[u], FALSE)]
    /\ pc' = [pc EXCEPT ![u] = "replace"]
    /\ UNCHANGED <<req, result, combined, lock, manifest, DATASET_PATH, seen, rd, fn>>

\* os.replace(tmp_parquet, MASTER_PARQUET)
Replace(u) ==
    /\ pc[u] = "replace"
    /\ files' = os_replace(files, tmp_parquet(u), MASTER_PARQUET)
    /\ combined' = [combined EXCEPT ![u] = << >>]
    /\ pc' = [pc EXCEPT ![u] = "unlock"]
    /\ UNCHANGED <<req, result, lock, manifest, DATASET_PATH, seen, rd, fn>>

\* leaving the with blocks: the temporary directory is removed, the lock released
Release(u) ==
    /\ pc[u] = "unlock"
    /\ files' = [files EXCEPT ![<<"merged.parquet", u>>] = NoFile]
    /\ lock' = IF lock = u THEN 0 ELSE lock
    /\ pc' = [pc EXCEPT ![u] = "ready"]
    /\ UNCHANGED <<req, result, combined, manifest, DATASET_PATH, seen, rd, fn>>

\* an I/O error while reading, writing or replacing (disk full, permissions, ...)
MergeFail(u) ==
    /\ pc[u] \in {"read", "write", "flush", "replace"}
    /\ Raise(u)
    /\ UNCHANGED <<req, manifest, DATASET_PATH, seen, rd, fn>>

\* line 141: append_ingest(status="ready", ...), then return out_path
AppendReady(u) ==
    /\ pc[u] = "ready"
    /\ manifest' = append_ingest(manifest, "ready", sha256_bytes(bytesOf(u)),
                                 Len(normalise_dataframe(bytesOf(u))), "", u)
    /\ Finish(u, "ok")
    /\ UNCHANGED <<req, combined, files, lock, DATASET_PATH, seen, rd, fn>>

\* ------------------------------------------------------------------ the server

\* a restore that looks at the last manifest entry only
try_restore_latest_entry ==
    IF files[MASTER_PARQUET].exists
       /\ manifest # << >> /\ manifest[Len(manifest)].status = "ready"
    THEN MASTER_PARQUET ELSE NoPath

\* try_restore_dataset_path, run by the lifespan of a freshly started process
try_restore_dataset_path ==
    IF files[MASTER_PARQUET].exists
       /\ \E i \in 1..Len(manifest) : manifest[i].status = "ready"
    THEN MASTER_PARQUET ELSE NoPath

\* The server process is restarted while no request is in flight.
Restart ==
    /\ \A u \in Uploads : pc[u] \in {"idle", "done"}
    /\ DATASET_PATH' = try_restore_dataset_path
    /\ seen' = "none"
    /\ UNCHANGED <<pc, req, result, combined, files, lock, manifest, rd, fn>>

\* summary_for_user, lines 17-28: the dataset is read without taking any lock
Summary ==
    /\ seen' = IF DATASET_PATH = NoPath \/ ~files[DATASET_PATH].exists THEN "no_dataset"
               ELSE IF files[DATASET_PATH].torn THEN "read_failed"
               ELSE "read"
    /\ UNCHANGED <<pc, req, result, combined, files, lock, manifest, DATASET_PATH, rd, fn>>

\* The user and the amount (in hundredths) of a cleaned row of the sample bodies.
user_id(row) == IF row = <<"A", 3>> THEN "u2" ELSE "u1"

transaction_amount(row) ==
    IF row = <<"A", 1>> THEN 1234 ELSE IF row = <<"A", 3>> THEN 990 ELSE 1000

\* the user ids queried
QueryUsers == {"u1", "u2", "u9"}

\* null in a response
Null == 0 - 1

Response(status, count, lo, hi, total) ==
    [status |-> status, count |-> count, min |-> lo, max |-> hi, total |-> total]

RECURSIVE SelectUser(_, _)
SelectUser(rows, uid) ==
    IF rows = << >> THEN << >>
    ELSE (IF user_id(Head(rows)) = uid THEN << transaction_amount(Head(rows)) >> ELSE << >>)
            \o SelectUser(Tail(rows), uid)

RECURSIVE Sum(_)
Sum(xs) == IF xs = << >> THEN 0 ELSE Head(xs) + Sum(Tail(xs))

Min(xs) == CHOOSE x \in {xs[i] : i \in 1..Len(xs)} : \A j \in 1..Len(xs) : x <= xs[j]
Max(xs) == CHOOSE x \in {xs[i] : i \in 1..Len(xs)} : \A j \in 1..Len(xs) : x >= xs[j]

\* summary_for_user(user_id) without from_date / to_date: the response, given the
\* process's DATASET_PATH and the files on disk
summary_for_user(path, fs, uid) ==
    IF path = NoPath \/ ~fs[path].exists
        THEN Response("UNREADABLE_CSV", Null, Null, Null, Null)     \* No dataset available
    ELSE IF fs[path].torn
        THEN Response("UNREADABLE_CSV", Null, Null, Null, Null)     \* Failed to read dataset
    ELSE LET amounts == SelectUser(fs[path].rows, uid)
         IN  IF amounts = << >>
                 THEN Response("USER_NOT_FOUND", Null, Null, Null, Null)
                 ELSE Response("success", Len(amounts), Min(amounts), Max(amounts),
                               Sum(amounts))

\* the steps of request u after it has arrived
Step(u) ==
    \/ Find(u)
    \/ InnerExcept(u)
    \/ Except(u)
    \/ Acquire(u)
    \/ ReadConcat(u)
    \/ WriteBegin(u)
    \/ WriteEnd(u)
    \/ Replace(u)
    \/ Release(u)
    \/ MergeFail(u)
    \/ AppendReady(u)

Next ==
    \/ \E u \in Uploads : Start(u)
    \/ \E u \in Uploads : Step(u)
    \/ Restart
    \/ Summary

Spec == Init /\ [][Next]_vars

\* One request at a time: a request arrives only when no other is in flight.
NoneInFlight == \A u \in Uploads : pc[u] \in {"idle", "done"}

NextSeq ==
    \/ \E u \in Uploads : NoneInFlight /\ Start(u)
    \/ \E u \in Uploads : Step(u)
    \/ Restart
    \/ Summary

SpecSeq == Init /\ [][NextSeq]_vars

\* The requests of the termination check: a valid file, an unreadable one, one
\* whose rows are all invalid and one with a wrong suffix; the process is not
\* restarted.
LiveInputs ==
    {<<"a.csv", "A">>, <<"a.csv", "garbage">>, <<"a.csv", "allbad">>, <<"readme.md", "A">>}

NextLive ==
    \/ \E u \in Uploads : StartFrom(u, LiveInputs)
    \/ \E u \in Uploads : Step(u)

\* Every request that has arrived keeps taking steps: the threads of the server
\* are scheduled fairly and FileLock.acquire keeps polling.
SpecFair == Init /\ [][NextLive]_vars /\ \A u \in Uploads : WF_vars(Step(u))

\* ------------------------------------------------------------------ byte reader

\* The first lines of save_upload_to_disk, one statement at a time, for one request:
\* the suffix check, _read_upload_into_memory one read() at a time, the empty check
\* and the checksum.  Sources are the byte strings <<1, .., n>>, n up to MaxLen; the
\* cap is MAX_BYTES or a value it was overridden with (MAX_CSV_BYTES, monkeypatch).
MaxLen == 5
MaxCap == 4

server == <<pc, req, result, combined, files, lock, manifest, DATASET_PATH, seen>>

Names == {"a.csv", "b.CSV", "readme.md", ""}

Source(n) == [i \in 1..n |-> i]

NoSum == <<"none", << >> >>

\* a request entering save_upload_to_disk
Entering(name, n, cap) ==
    [phase |-> "suffix", name |-> name, src |-> Source(n), cap |-> cap,
     pos |-> 0, total |-> 0, chunks |-> << >>, returned |-> FALSE, out |-> << >>,
     err |-> "none", limit |-> 0, checksum |-> NoSum]

InitReader ==
    /\ InitServer
    /\ fn = FnIdle
    /\ rd \in {Entering(name, n, cap) : name \in Names, n \in 0..MaxLen, cap \in 0..MaxCap}

ExceedsCapInclusive(total, cap) == total >= cap

\* total > MAX_BYTES
ExceedsCap(total, cap) == total > cap

\* upload.file.read(size): the next size bytes of the stream, fewer at its end
read(src, pos, size) ==
    SubSeq(src, pos + 1, IF pos + size > Len(src) THEN Len(src) ELSE pos + size)

\* if not upload.filename or not upload.filename.lower().endswith(".csv")
RdSuffix ==
    /\ rd.phase = "suffix"
    /\ IF rd.name = "" \/ ~EndsWithCsv(rd.name)
          THEN rd' = [rd EXCEPT !.phase = "failed", !.err = "INVALID_FILE_TYPE"]
          ELSE rd' = [rd EXCEPT !.phase = "read"]
    /\ UNCHANGED <<server, fn>>

\* one turn of the loop of _read_upload_into_memory
RdRead ==
    /\ rd.phase = "read"
    /\ LET chunk == read(rd.src, rd.pos, CHUNK)
           total == rd.total + Len(chunk)
       IN  IF chunk = << >>
               THEN rd' = [rd EXCEPT !.phase = "joined", !.returned = TRUE,
                                     !.out = rd.chunks]
           ELSE IF ExceedsCap(total, rd.cap)
               THEN rd' = [rd EXCEPT !.phase = "failed", !.err = "FILE_TOO_LARGE",
                                     !.limit = rd.cap, !.pos = @ + Len(chunk),
                                     !.total = total]
           ELSE rd' = [rd EXCEPT !.pos = @ + Len(chunk), !.total = total,
                                 !.chunks = @ \o chunk]
    /\ UNCHANGED <<server, fn>>

\* if not raw_bytes: raise EMPTY_CSV; checksum = sha256_bytes(raw_bytes)
RdChecksum ==
    /\ rd.phase = "joined"
    /\ IF rd.out = << >>
          THEN rd' = [rd EXCEPT !.phase = "failed", !.err = "EMPTY_CSV"]
          ELSE rd' = [rd EXCEPT !.phase = "checksummed", !.checksum = sha256_bytes(rd.out)]
    /\ UNCHANGED <<server, fn>>

NextReader == RdSuffix \/ RdRead \/ RdChecksum

SpecReader == InitReader /\ [][NextReader]_vars

\* ------------------------------------------------------------------ schema resolver

\* REQUIRED_COLUMNS: the accepted header variants of each canonical field
Variants(target) ==
    CASE target = "transaction_id" ->
            {"transaction_id", "transactionid", "transaction-id", "transaction id"}
      [] target = "user_id" -> {"user_id", "userid", "user-id", "user id", "user"}
      [] target = "product_id" ->
            {"product_id", "productid", "product-id", "product id", "product"}
      [] target = "timestamp" ->
            {"timestamp", "time_stamp", "date", "datetime", "time stamp"}
      [] target = "transaction_amount" ->
            {"transaction_amount", "amount", "value", "price", "transaction amount"}

\* REQUIRED_COLUMNS.items(): the canonical fields in the order of the table
Targets == <<"transaction_id", "user_id", "product_id", "timestamp", "transaction_amount">>

\* The header strings the model draws from, in one fixed column order.
HeaderOrder ==
    <<"transaction_id", "Transaction-ID", "user_id", "User", "USER", "Product",
      "DateTime", "timestamp", "Amount", "price", "notes">>

\* str.lower on those headers
Lower(h) ==
    CASE h = "Transaction-ID" -> "transaction-id"
      [] h = "User"           -> "user"
      [] h = "USER"           -> "user"
      [] h = "Product"        -> "product"
      [] h = "DateTime"       -> "datetime"
      [] h = "Amount"         -> "amount"
      [] OTHER                -> h

Reverse(s) == [i \in 1..Len(s) |-> s[Len(s) + 1 - i]]

\* list(df.columns): the chosen headers, left to right or right to left
Columns(hs, reversed) ==
    LET in(h) == h \in hs
    IN  SelectSeq(IF reversed THEN Reverse(HeaderOrder) ELSE HeaderOrder, in)

Elems(s) == {s[i] : i \in 1..Len(s)}

NoMapping == [t \in {} |-> ""]

_identity_map(cols) == [k \in Elems(cols) |-> k]

\* _lower_map: {c.lower(): c for c in cols}; a later column replaces an earlier one
\* with the same lower-case form
_lower_map(cols) ==
    [k \in {Lower(cols[i]) : i \in 1..Len(cols)} |->
        cols[CHOOSE i \in 1..Len(cols) :
                /\ Lower(cols[i]) = k
                /\ \A j \in 1..Len(cols) : Lower(cols[j]) = k => j <= i]]

\* the detail of an error that has not been raised
NoDetail == [missing |-> << >>, expected |-> << >>]

\* detail={"missing": [target], "expected": list(REQUIRED_COLUMNS.keys())}
MissingDetail(target) == [missing |-> << target >>, expected |-> Targets]

\* a call of resolve_required_columns_from_df on a frame with these columns
Resolving(cols) ==
    [op |-> "resolve", phase |-> "called", cols |-> cols, lower_cols |-> NoMapping,
     i |-> 1, resolved |-> NoMapping, out |-> NoMapping, err |-> "none",
     missing |-> "none", detail |-> NoDetail]

InitResolve ==
    /\ InitServer
    /\ rd = RdIdle
    /\ fn \in {Resolving(Columns(hs, reversed)) :
                  hs \in SUBSET Elems(HeaderOrder), reversed \in BOOLEAN}

\* lower_cols = _lower_map(list(df.columns))
ResolveLowerMap ==
    /\ fn.op = "resolve" /\ fn.phase = "called"
    /\ fn' = [fn EXCEPT !.phase = "loop", !.lower_cols = _lower_map(fn.cols)]
    /\ UNCHANGED <<server, rd>>

\* One turn of the loop over REQUIRED_COLUMNS.items().  variants is a set of
\* strings, so which present variant next() meets first is not fixed.
ResolveTarget ==
    /\ fn.op = "resolve" /\ fn.phase = "loop" /\ fn.i <= Len(Targets)
    /\ LET target == Targets[fn.i]
           present == Variants(target) \cap DOMAIN fn.lower_cols
       IN  IF present = {}
               THEN fn' = [fn EXCEPT !.phase = "raised", !.err = "MISSING_COLUMNS",
                                     !.missing = target,
                                     !.detail = MissingDetail(target)]
               ELSE \E v \in present :
                       fn' = [fn EXCEPT
                                 !.i = @ + 1,
                                 !.resolved = [t \in DOMAIN fn.resolved \cup {target} |->
                                                 IF t = target THEN fn.lower_cols[v]
                                                 ELSE fn.resolved[t]]]
    /\ UNCHANGED <<server, rd>>

\* return resolved
ResolveReturn ==
    /\ fn.op = "resolve" /\ fn.phase = "loop" /\ fn.i > Len(Targets)
    /\ fn' = [fn EXCEPT !.phase = "returned", !.out = fn.resolved]
    /\ UNCHANGED <<server, rd>>

NextResolve == ResolveLowerMap \/ ResolveTarget \/ ResolveReturn

SpecResolve == InitResolve /\ [][NextResolve]_vars

\* ------------------------------------------------------------------ row normaliser

\* the longest frame the model hands to the normaliser
MaxRows == 3

\* str.strip on the cell values of the sample rows
strip(v) ==
    CASE v = " t1 " -> "t1"
      [] v = "u2 "  -> "u2"
      [] v = "  "   -> ""
      [] v = " "    -> ""
      [] OTHER      -> v

\* pd.to_numeric(errors="coerce") is not NaN
IsNumeric(v) == v \in {"12.345", "9.9", "10"}

\* pd.to_datetime(errors="coerce", utc=True) is not NaT; the sample timestamps
\* that parse all have one format
IsDatetime(v) == v \in {"2025-01-01T00:00:00Z", "2025-01-02T09:00:00Z"}

\* NaN, the value of an amount that does not parse
NaN == 0 - 1

\* astype("float64").round(2), in hundredths
round2(v) ==
    CASE v = "12.345" -> 1234
      [] v = "9.9"    -> 990
      [] v = "10"     -> 1000
      [] OTHER        -> NaN

\* dt.strftime("%Y-%m-%dT%H:%M:%SZ") of the parsed instant
strftime(v) == v

Cells(tid, uid, pid, ts, amt) ==
    [transaction_id |-> tid, user_id |-> uid, product_id |-> pid, timestamp |-> ts,
     transaction_amount |-> amt, notes |-> "n"]

\* The rows the frames are made of: two valid ones (one with padded ids), one with
\* a blank user, one with a bad timestamp, one with a bad amount, one with a blank
\* amount.
SampleRows ==
    {Cells(" t1 ", "u1", "p1", "2025-01-01T00:00:00Z", "12.345"),
     Cells("t2", "u2 ", "p2", "2025-01-02T09:00:00Z", "9.9"),
     Cells("t3", "  ", "p1", "2025-01-01T00:00:00Z", "10"),
     Cells("t4", "u1", "p1", "not-a-date", "10"),
     Cells("t5", "u1", "p1", "2025-01-01T00:00:00Z", "abc"),
     Cells("t6", "u1", "p1", "2025-01-02T09:00:00Z", " ")}

\* the column mappings of the normaliser tests: canonical headers, and variants
ColMaps ==
    {[t \in REQUIRED_COLUMNS |-> t],
     [t \in REQUIRED_COLUMNS |->
        CASE t = "transaction_id" -> "Transaction-ID"
          [] t = "user_id" -> "User"
          [] t = "product_id" -> "Product"
          [] t = "timestamp" -> "DateTime"
          [] t = "transaction_amount" -> "Amount"]}

\* a sample row as a frame row under the headers of col_map
Keyed(row, col_map) ==
    [h \in {col_map[t] : t \in REQUIRED_COLUMNS} \cup {"notes"} |->
        IF h = "notes" THEN row.notes
        ELSE row[CHOOSE t \in REQUIRED_COLUMNS : col_map[t] = h]]

Frames(col_map) ==
    UNION {[1..n -> {Keyed(r, col_map) : r \in SampleRows}] : n \in 0..MaxRows}

\* a call of the row normalising steps of save_upload_to_disk
Normalising(df, col_map) ==
    [op |-> "normalise", phase |-> "called", df |-> df, col_map |-> col_map,
     kept |-> << >>, out |-> << >>, returned |-> FALSE, err |-> "none"]

InitNormalise ==
    /\ InitServer
    /\ rd = RdIdle
    /\ fn \in UNION {{Normalising(df, cm) : df \in Frames(cm)} : cm \in ColMaps}

\* ensure_not_empty_df
NormEnsure ==
    /\ fn.op = "normalise" /\ fn.phase = "called"
    /\ IF fn.df = << >>
          THEN fn' = [fn EXCEPT !.phase = "raised", !.err = "EMPTY_CSV"]
          ELSE fn' = [fn EXCEPT !.phase = "checked"]
    /\ UNCHANGED <<server, rd>>

\* mask_all_present of one row
all_present(row, col_map) == \A t \in REQUIRED_COLUMNS : strip(row[col_map[t]]) # ""

\* drop_rows_with_empty_requireds
NormDropEmpty ==
    /\ fn.op = "normalise" /\ fn.phase = "checked"
    /\ LET keep(row) == all_present(row, fn.col_map)
       IN  fn' = [fn EXCEPT !.phase = "dropped", !.kept = SelectSeq(fn.df, keep)]
    /\ UNCHANGED <<server, rd>>

valid_mask_either(amt, ts) == amt \/ ts

\* valid_mask = amt.notna() & ts.notna()
valid_mask(amt, ts) == amt /\ ts

\* steps 1, 2, 5 and 6 of normalise_dataframe on one row: the five standard columns
\* in the final order
standard(row, col_map) ==
    << strip(row[col_map["transaction_id"]]),
       strip(row[col_map["user_id"]]),
       strip(row[col_map["product_id"]]),
       strftime(row[col_map["timestamp"]]),
       round2(row[col_map["transaction_amount"]]) >>

\* normalise_dataframe
NormCoerce ==
    /\ fn.op = "normalise" /\ fn.phase = "dropped"
    /\ LET valid(row) == valid_mask(IsNumeric(row[fn.col_map["transaction_amount"]]),
                                    IsDatetime(row[fn.col_map["timestamp"]]))
           df == SelectSeq(fn.kept, valid)
       IN  IF df = << >>
               THEN fn' = [fn EXCEPT !.phase = "raised", !.err = "EMPTY_CSV"]
               ELSE fn' = [fn EXCEPT !.phase = "returned", !.returned = TRUE,
                              !.out = [i \in 1..Len(df) |-> standard(df[i], fn.col_map)]]
    /\ UNCHANGED <<server, rd>>

NextNormalise == NormEnsure \/ NormDropEmpty \/ NormCoerce

SpecNormalise == InitNormalise /\ [][NextNormalise]_vars

\* ------------------------------------------------------------------ amounts

\* Amounts are decimal strings with three places, written as a number of
\* thousandths: 0 .. MaxAmount and 12000 .. 12000 + MaxAmount (12.345 among them).
MaxAmount == 1100

Amounts == (0..MaxAmount) \cup {12000 + k : k \in 0..MaxAmount}

\* The amounts ending in 5 whose float64 value times 100 is not exactly the half:
\* it falls just below it for the first set and just above it for the second
\* (IEEE 754 double arithmetic on the parsed string).
TiesBelow == {145, 285, 565, 575, 1005, 1015, 1025, 1035}
TiesAbove == {35, 275, 545, 555}

truncate2(t) == t \div 10

\* astype("float64").round(2): times 100, round half to even, divided by 100;
\* the result in hundredths
np_round2(t) ==
    LET q == t \div 10
        r == t % 10
    IN  IF r < 5 THEN q
        ELSE IF r > 5 THEN q + 1
        ELSE IF t \in TiesBelow THEN q
        ELSE IF t \in TiesAbove THEN q + 1
        ELSE IF q % 2 = 0 THEN q ELSE q + 1

Rounding(t) == [op |-> "round", phase |-> "called", arg |-> t, out |-> NaN]

InitRound ==
    /\ InitServer
    /\ rd = RdIdle
    /\ fn \in {Rounding(t) : t \in Amounts}

\* step 5 of normalise_dataframe on one amount
Round2 ==
    /\ fn.op = "round" /\ fn.phase = "called"
    /\ fn' = [fn EXCEPT !.phase = "returned", !.out = np_round2(fn.arg)]
    /\ UNCHANGED <<server, rd>>

NextRound == Round2

SpecRound == InitRound /\ [][NextRound]_vars

\* ------------------------------------------------------------------ timestamps

\* A timestamp string, by what it denotes: wall-clock seconds 0 .. MaxSec,
\* milliseconds, and a zone designator (none, Z, or an offset of one hour).
MaxSec == 3

HOUR == 60 * 60

Zones == {"naive", "Z", "+01:00", "-01:00"}

Timestamp(sec, ms, tz) == [sec |-> sec, ms |-> ms, tz |-> tz]

utcoffset(tz) ==
    CASE tz = "+01:00" -> HOUR
      [] tz = "-01:00" -> 0 - HOUR
      [] OTHER         -> 0

\* pd.to_datetime(..., utc=True): the instant, in milliseconds of UTC
to_datetime(ts) == (ts.sec - utcoffset(ts.tz)) * 1000 + ts.ms

nearest_second(instant) == (instant + 500) \div 1000

\* %S of strftime: the whole seconds of the instant, the fraction left out
whole_seconds(instant) == instant \div 1000

\* ts.dt.strftime("%Y-%m-%dT%H:%M:%SZ")
canonical(ts) == Timestamp(whole_seconds(to_datetime(ts)), 0, "Z")

NoTimestamp == Timestamp(0, 0, "none")

Canonicalising(ts) ==
    [op |-> "timestamp", phase |-> "called", arg |-> ts, out |-> NoTimestamp,
     again |-> NoTimestamp]

InitTimestamp ==
    /\ InitServer
    /\ rd = RdIdle
    /\ fn \in {Canonicalising(Timestamp(sec, ms, tz)) :
                  sec \in 0..MaxSec, ms \in {0, 1, 499, 500, 999}, tz \in Zones}

\* steps 3 and 5 of normalise_dataframe on one timestamp
TsCanonicalise ==
    /\ fn.op = "timestamp" /\ fn.phase = "called"
    /\ fn' = [fn EXCEPT !.phase = "persisted", !.out = canonical(fn.arg)]
    /\ UNCHANGED <<server, rd>>

\* the persisted value normalised once more
TsAgain ==
    /\ fn.op = "timestamp" /\ fn.phase = "persisted"
    /\ fn' = [fn EXCEPT !.phase = "renormalised", !.again = canonical(fn.out)]
    /\ UNCHANGED <<server, rd>>

NextTimestamp == TsCanonicalise \/ TsAgain

SpecTimestamp == InitTimestamp /\ [][NextTimestamp]_vars

\* ------------------------------------------------------------------ manifest appends

\* append_ingest called by NumWriters threads or processes at once, one system call
\* at a time.  The manifest is a sequence of pieces: each record line is written as
\* two, its JSON text and its newline.
NumWriters == 3

Writers == 1..NumWriters

\* json.dumps(rec) + "\n"
Line(w, status) == << <<w, status, "json">>, <<w, status, "\n">> >>

os_write_at_offset(file, pos, buf) ==
    SubSeq(file, 1, pos) \o buf \o SubSeq(file, pos + Len(buf) + 1, Len(file))

\* write(2) on a descriptor opened with O_APPEND (mode "a"): the bytes go to the
\* end of the file as it is at the time of the call, whatever offset the
\* descriptor had
os_write(file, pos, buf) == file \o buf

Appending ==
    [op |-> "append", file |-> << >>,
     w |-> [w \in Writers |-> [phase |-> "idle", status |-> "none", pos |-> 0,
                               buf |-> << >>]]]

InitAppend ==
    /\ InitServer
    /\ rd = RdIdle
    /\ fn = Appending

\* MANIFEST_PATH.open("a", encoding="utf-8")
ApOpen(w) ==
    /\ fn.op = "append" /\ fn.w[w].phase = "idle"
    /\ \E status \in {"ready", "failed"} :
         fn' = [fn EXCEPT !.w[w] = [phase |-> "open", status |-> status,
                                    pos |-> Len(fn.file), buf |-> << >>]]
    /\ UNCHANGED <<server, rd>>

\* f.write(json.dumps(rec) + "\n"): into the buffer of the file object
ApWrite(w) ==
    /\ fn.op = "append" /\ fn.w[w].phase = "open"
    /\ fn' = [fn EXCEPT !.w[w].phase = "buffered",
                         !.w[w].buf = Line(w, fn.w[w].status)]
    /\ UNCHANGED <<server, rd>>

\* leaving the with block: the buffer is flushed by one write call, then closed
ApClose(w) ==
    /\ fn.op = "append" /\ fn.w[w].phase = "buffered"
    /\ fn' = [fn EXCEPT !.w[w].phase = "closed", !.w[w].buf = << >>,
                         !.file = os_write(fn.file, fn.w[w].pos, fn.w[w].buf)]
    /\ UNCHANGED <<server, rd>>

NextAppend == \E w \in Writers : ApOpen(w) \/ ApWrite(w) \/ ApClose(w)

SpecAppend == InitAppend /\ [][NextAppend]_vars

\* ------------------------------------------------------------------ manifest scan

\* find_by_checksum over a manifest of up to MaxLines lines of any kind, one line
\* at a time.
MaxLines == 3

\* A line of the manifest: blank, not JSON, JSON that is not an object (null, [],
\* 123), or a record.
ManifestLine(kind, status, checksum) ==
    [kind |-> kind, status |-> status, checksum_sha256 |-> checksum]

ManifestLines ==
    {ManifestLine("blank", "", ""), ManifestLine("garbage", "", ""),
     ManifestLine("scalar", "", ""),
     ManifestLine("record", "ready", "c"), ManifestLine("record", "failed", "c"),
     ManifestLine("record", "ready", "d")}

\* find_by_checksum("c") about to read a manifest
Scanning(exists, lines) ==
    [op |-> "scan", phase |-> "scanning", exists |-> exists, lines |-> lines, i |-> 1,
     out |-> None, err |-> "none"]

InitScan ==
    /\ InitServer
    /\ rd = RdIdle
    /\ fn \in {Scanning(FALSE, << >>)} \cup
              {Scanning(TRUE, lines) :
                  lines \in UNION {[1..n -> ManifestLines] : n \in 0..MaxLines}}

\* if not MANIFEST_PATH.exists(): return []
ScanMissing ==
    /\ fn.op = "scan" /\ fn.phase = "scanning" /\ ~fn.exists
    /\ fn' = [fn EXCEPT !.phase = "returned", !.out = None]
    /\ UNCHANGED <<server, rd>>

\* One line: _iter_manifest skips it if it is blank or json.loads raises
\* JSONDecodeError, and yields what json.loads returns otherwise; find_by_checksum
\* calls rec.get on that, which only an object has.
ScanLine ==
    /\ fn.op = "scan" /\ fn.phase = "scanning" /\ fn.exists /\ fn.i <= Len(fn.lines)
    /\ LET line == fn.lines[fn.i]
       IN  IF line.kind \in {"blank", "garbage"}
               THEN fn' = [fn EXCEPT !.i = @ + 1]
           ELSE IF line.kind = "scalar"
               THEN fn' = [fn EXCEPT !.phase = "raised", !.err = "AttributeError"]
           ELSE IF line.checksum_sha256 = "c" /\ line.status = "ready"
               THEN fn' = [fn EXCEPT !.phase = "returned", !.out = line]
           ELSE fn' = [fn EXCEPT !.i = @ + 1]
    /\ UNCHANGED <<server, rd>>

\* the file is exhausted: return None
ScanEnd ==
    /\ fn.op = "scan" /\ fn.phase = "scanning" /\ fn.exists /\ fn.i > Len(fn.lines)
    /\ fn' = [fn EXCEPT !.phase = "returned", !.out = None]
    /\ UNCHANGED <<server, rd>>

NextScan == ScanMissing \/ ScanLine \/ ScanEnd

SpecScan == InitScan /\ [][NextScan]_vars

\* ------------------------------------------------------------------ ingest ids

\* append_ingest called up to MaxRecords times while the wall clock runs to
\* MaxClock, counted in half seconds.
MaxClock == 8
MaxRecords == 3

\* datetime.now(timezone.utc).strftime("%Y-%m-%dT%H-%M-%SZ"): the whole second
ingest_id(clock) == clock \div 2

Clocked == [op |-> "ingest", clock |-> 0, ids |-> << >>]

InitIngest ==
    /\ InitServer
    /\ rd = RdIdle
    /\ fn = Clocked

\* half a second passes
Tick ==
    /\ fn.op = "ingest" /\ fn.clock < MaxClock
    /\ fn' = [fn EXCEPT !.clock = @ + 1]
    /\ UNCHANGED <<server, rd>>

\* append_ingest: the new record takes its ingest_id from the clock
IngestAppend ==
    /\ fn.op = "ingest" /\ Len(fn.ids) < MaxRecords
    /\ fn' = [fn EXCEPT !.ids = Append(@, ingest_id(fn.clock))]
    /\ UNCHANGED <<server, rd>>

NextIngest == Tick \/ IngestAppend

SpecIngest == InitIngest /\ [][NextIngest]_vars

\* ------------------------------------------------------------------ legacy CSV snapshot

\* save_upload_to_disk with the optional snapshot of lines 132-135.  WRITE_CSV_LEGACY
\* is False in the repository; a run starts with the flag at either value.  Requests
\* carry valid files only.  fn holds the flag, where each request stands in the
\* snapshot block, the CSV files under data/, and whose os.replace came last.

FINAL_CSV_PATH == <<"transactions.csv", 0>>

tmp_csv_in_place(u) == FINAL_CSV_PATH

\* Path(tmp.name): NamedTemporaryFile picks a fresh name in the directory of the
\* final file
tmp_csv(u) == <<"tmp.csv", u>>

CsvPaths == {FINAL_CSV_PATH} \cup {<<"tmp.csv", u>> : u \in Uploads}

\* A CSV file by its content: whether the header line is there, and the data rows
CsvFile(header, rows) == [exists |-> TRUE, header |-> header, rows |-> rows]

\* df.to_csv(index=False) of a frame, written out completely
to_csv(df) == CsvFile(TRUE, df)

LegacyInputs == {<<"a.csv", "A">>, <<"a.csv", "B">>}

Snapshotting(enabled) ==
    [op |-> "legacy", WRITE_CSV_LEGACY |-> enabled, at |-> [u \in Uploads |-> "none"],
     csv |-> [p \in CsvPaths |-> NoFile], last |-> 0]

InitLegacy ==
    /\ InitServer
    /\ rd = RdIdle
    /\ fn \in {Snapshotting(enabled) : enabled \in BOOLEAN}

\* line 134: with upload_lock(), taken again after the merge has released it
SnapshotAcquire(u) ==
    /\ pc[u] = "ready" /\ fn.WRITE_CSV_LEGACY /\ fn.at[u] = "none"
    /\ upload_lock_free
    /\ lock' = u
    /\ fn' = [fn EXCEPT !.at[u] = "locked"]
    /\ UNCHANGED <<pc, req, result, combined, files, manifest, DATASET_PATH, seen, rd>>

\* lines 50-57: NamedTemporaryFile(delete=False) creates an empty file
SnapshotCreate(u) ==
    /\ pc[u] = "ready" /\ fn.at[u] = "locked"
    /\ fn' = [fn EXCEPT !.at[u] = "created", !.csv[tmp_csv(u)] = CsvFile(FALSE, << >>)]
    /\ UNCHANGED <<server, rd>>

\* line 58, df.to_csv(tmp_path), first part: the header and the first rows
SnapshotWriteBegin(u) ==
    /\ pc[u] = "ready" /\ fn.at[u] = "created"
    /\ fn' = [fn EXCEPT !.at[u] = "partial",
                        !.csv[tmp_csv(u)] =
                            CsvFile(TRUE, SubSeq(normalise_dataframe(bytesOf(u)), 1,
                                        Len(normalise_dataframe(bytesOf(u))) \div 2))]
    /\ UNCHANGED <<server, rd>>

\* line 58, df.to_csv(tmp_path), completed
SnapshotWriteEnd(u) ==
    /\ pc[u] = "ready" /\ fn.at[u] = "partial"
    /\ fn' = [fn EXCEPT !.at[u] = "written",
                        !.csv[tmp_csv(u)] = to_csv(normalise_dataframe(bytesOf(u)))]
    /\ UNCHANGED <<server, rd>>

\* line 59: os.replace(tmp_path, final_path)
SnapshotReplace(u) ==
    /\ pc[u] = "ready" /\ fn.at[u] = "written"
    /\ fn' = [fn EXCEPT !.at[u] = "replaced",
                        !.csv = os_replace(fn.csv, tmp_csv(u), FINAL_CSV_PATH),
                        !.last = u]
    /\ UNCHANGED <<server, rd>>

\* leaving with upload_lock()
SnapshotRelease(u) ==
    /\ pc[u] = "ready" /\ fn.at[u] = "replaced"
    /\ lock' = IF lock = u THEN 0 ELSE lock
    /\ fn' = [fn EXCEPT !.at[u] = "released"]
    /\ UNCHANGED <<pc, req, result, combined, files, manifest, DATASET_PATH, seen, rd>>

\* an I/O error inside _atomic_write_csv: the temporary file stays (delete=False),
\* the lock is released and the exception reaches the handler of lines 137-139
SnapshotFail(u) ==
    /\ pc[u] = "ready" /\ fn.at[u] \in {"locked", "created", "partial", "written"}
    /\ lock' = IF lock = u THEN 0 ELSE lock
    /\ pc' = [pc EXCEPT ![u] = "except"]
    /\ result' = [result EXCEPT ![u] = "INTERNAL_ERROR"]
    /\ fn' = [fn EXCEPT !.at[u] = "failed"]
    /\ UNCHANGED <<req, combined, files, manifest, DATASET_PATH, seen, rd>>

\* line 141, reached when the snapshot block is skipped or has been left
AppendReadyLegacy(u) ==
    /\ fn.WRITE_CSV_LEGACY => fn.at[u] = "released"
    /\ AppendReady(u)

StepLegacy(u) ==
    \/ Find(u)
    \/ Except(u)
    \/ Acquire(u)
    \/ ReadConcat(u)
    \/ WriteBegin(u)
    \/ WriteEnd(u)
    \/ Replace(u)
    \/ Release(u)
    \/ MergeFail(u)
    \/ SnapshotAcquire(u)
    \/ SnapshotCreate(u)
    \/ SnapshotWriteBegin(u)
    \/ SnapshotWriteEnd(u)
    \/ SnapshotReplace(u)
    \/ SnapshotRelease(u)
    \/ SnapshotFail(u)
    \/ AppendReadyLegacy(u)

NextLegacy ==
    \/ \E u \in Uploads : StartFrom(u, LegacyInputs)
    \/ \E u \in Uploads : StepLegacy(u)

SpecLegacy == InitLegacy /\ [][NextLegacy]_vars

\* ------------------------------------------------------------------ properties

MergePcs == {"read", "write", "flush", "replace", "unlock"}

RejectErrors ==
    {"INVALID_FILE_TYPE", "FILE_TOO_LARGE", "EMPTY_CSV", "UNREADABLE_CSV", "MISSING_COLUMNS"}

Failures == RejectErrors \cup {"INTERNAL_ERROR"}

RowsOf(f) == IF f.exists THEN f.rows ELSE << >>

MasterRows == RowsOf(files[MASTER_PARQUET])

Clean(u) == normalise_dataframe(bytesOf(u))

Done(u) == pc[u] = "done"

\* the request got as far as computing a checksum
HasChecksum(u) ==
    /\ pc[u] # "idle"
    /\ EndsWithCsv(req[u][1])
    /\ _read_upload_into_memory(bytesOf(u)) = "ok"
    /\ Body(bytesOf(u)).size > 0

RecordsBy(u) == {i \in 1..Len(manifest) : manifest[i].by = u}

ReadyCount(c) ==
    Cardinality({i \in 1..Len(manifest) :
                    manifest[i].status = "ready" /\ manifest[i].checksum_sha256 = c})

\* how many times the batch of bytes b occurs in the master dataset
BatchCount(b) ==
    IF normalise_dataframe(b) = << >> THEN 0
    ELSE Cardinality({i \in 1..Len(MasterRows) : MasterRows[i] = normalise_dataframe(b)[1]})

IsPrefix(s, t) == Len(s) <= Len(t) /\ SubSeq(t, 1, Len(s)) = s

\* rows is a concatenation of whole cleaned batches
RECURSIVE WholeBatches(_)
WholeBatches(rows) ==
    \/ rows = << >>
    \/ \E b \in Bytes :
         /\ normalise_dataframe(b) # << >>
         /\ IsPrefix(normalise_dataframe(b), rows)
         /\ WholeBatches(SubSeq(rows, Len(normalise_dataframe(b)) + 1, Len(rows)))

CompleteVersion(f) == ~f.exists \/ (~f.torn /\ WholeBatches(f.rows))

\* C1: in every reachable state, for every checksum, the batch with that checksum
\* has been appended to the master dataset at most once and the manifest holds at
\* most one ready record for it (two identical concurrent uploads never both merge).
C1_AtMostOncePerChecksum ==
    \A b \in Bytes : ReadyCount(sha256_bytes(b)) <= 1 /\ BatchCount(b) <= 1

C3_NoLostUpdate ==
    ((\A u \in Uploads : Done(u))
       /\ \A u, v \in Uploads : u # v => bytesOf(u) # bytesOf(v))
    => /\ \A b \in Bytes :
            BatchCount(b) = IF \E u \in Uploads : bytesOf(u) = b /\ result[u] = "ok"
                            THEN 1 ELSE 0
       /\ CompleteVersion(files[MASTER_PARQUET])
       /\ \A u \in Uploads : result[u] = "ok" =>
              \E i \in 0..(Len(MasterRows) - Len(Clean(u))) :
                  SubSeq(MasterRows, i + 1, i + Len(Clean(u))) = Clean(u)

C3_Witness ==
    /\ \A u \in Uploads : Done(u) /\ result[u] = "ok"
    /\ \A u, v \in Uploads : u # v => bytesOf(u) # bytesOf(v)
    /\ Len(MasterRows) > 2

\* C4: the file at the master path is always a complete version (absent, or untorn
\* and made of whole batches), and a summary query, which reads it without a lock,
\* never reads a torn file.
C4_NoTornMaster ==
    /\ CompleteVersion(files[MASTER_PARQUET])
    /\ seen # "read_failed"

C4_Witness ==
    /\ seen = "read"
    /\ \E u \in Uploads : pc[u] = "flush" /\ files[tmp_parquet(u)].torn

\* C5: at most one upload is inside the read / concatenate / write / replace section,
\* and whoever is inside holds the global upload lock.
C5_MergeMutex ==
    /\ \A u \in Uploads : pc[u] \in MergePcs => lock = u
    /\ Cardinality({u \in Uploads : pc[u] \in MergePcs}) <= 1

C5_Witness ==
    \E u, v \in Uploads : pc[u] = "replace" /\ pc[v] = "lock"

\* C6: the replace step of a merge of batch N leaves the master dataset holding
\* exactly N when there was no file, and exactly the existing rows followed by N when
\* there was one.
C6_MergeAppends ==
    [][\A u \in Uploads :
         (pc[u] = "replace" /\ pc'[u] = "unlock") =>
             /\ files'[MASTER_PARQUET].exists
             /\ ~files'[MASTER_PARQUET].torn
             /\ files'[MASTER_PARQUET].rows = MasterRows \o Clean(u)]_vars

C6_Witness ==
    \E u \in Uploads :
        /\ pc[u] = "unlock"
        /\ Len(MasterRows) > Len(Clean(u))
        /\ SubSeq(MasterRows, Len(MasterRows) - Len(Clean(u)) + 1, Len(MasterRows)) = Clean(u)

\* C7: every terminated upload that has a checksum and was not short-circuited as a
\* duplicate has appended exactly one record: a ready record with the row count when
\* it succeeded, otherwise a failed record.
C7_ExactlyOneRecord ==
    \A u \in Uploads :
        (Done(u) /\ HasChecksum(u) /\ result[u] # "duplicate") =>
            /\ Cardinality(RecordsBy(u)) = 1
            /\ \A i \in RecordsBy(u) :
                 /\ manifest[i].checksum_sha256 = sha256_bytes(bytesOf(u))
                 /\ IF result[u] = "ok"
                    THEN manifest[i].status = "ready"
                         /\ manifest[i].rows_appended = Len(Clean(u))
                    ELSE manifest[i].status = "failed"

C9_FailedIsRetryable ==
    /\ \A b \in Bytes :
         LET r == find_by_checksum(manifest, sha256_bytes(b))
         IN  IF ReadyCount(sha256_bytes(b)) = 0 THEN r = None
             ELSE /\ r.status = "ready"
                  /\ r.checksum_sha256 = sha256_bytes(b)
                  /\ \E i \in 1..Len(manifest) : manifest[i] = r
    /\ \A u \in Uploads :
         result[u] = "duplicate" => ReadyCount(sha256_bytes(bytesOf(u))) >= 1

C9_Witness ==
    \E u, v \in Uploads :
        /\ u # v /\ bytesOf(u) = bytesOf(v)
        /\ Done(u) /\ result[u] = "INTERNAL_ERROR"
        /\ \E i \in RecordsBy(u) : manifest[i].status = "failed"
        /\ ReadyCount(sha256_bytes(bytesOf(v))) = 0
        /\ pc[v] \in MergePcs

\* C10: every step of an upload that is rejected before the merge (bad suffix, over
\* the cap, empty body, unparseable, missing columns, zero rows, no valid rows) leaves
\* the master dataset file as it was, and such an upload never goes on to the merge.
C10_RejectedLeavesMaster ==
    [][\A u \in Uploads :
         (pc'[u] # pc[u] /\ result'[u] \in RejectErrors) =>
             /\ files'[MASTER_PARQUET] = files[MASTER_PARQUET]
             /\ pc'[u] \in {"inner_except", "except", "done"}]_vars

C10_Witness ==
    /\ files[MASTER_PARQUET].exists
    /\ \E u \in Uploads :
         /\ u > 1 /\ Done(u) /\ result[u] = "EMPTY_CSV" /\ bytesOf(u) = "allbad"
         /\ HasChecksum(u)

\* the request has replaced the master file with its merge
Merged(u) == pc[u] \in {"unlock", "ready"} \/ (Done(u) /\ result[u] = "ok")

C12_UploadThenQuery ==
    \A u \in Uploads :
        (Done(u) /\ result[u] = "ok") =>
            \A i \in 1..Len(Clean(u)) :
                LET r == summary_for_user(DATASET_PATH, files, user_id(Clean(u)[i]))
                IN  r.status = "success" /\ r.count >= 1

\* C13: with a master dataset in place and known to the process, a summary query
\* whose user matches no row succeeds with count 0 and min, max, mean, total null.
C13_NoMatchIsSuccess ==
    \A uid \in QueryUsers :
        (/\ DATASET_PATH = MASTER_PARQUET
         /\ files[MASTER_PARQUET].exists
         /\ ~files[MASTER_PARQUET].torn
         /\ SelectUser(MasterRows, uid) = << >>)
        => summary_for_user(DATASET_PATH, files, uid) = Response("success", 0, Null, Null, Null)

\* C14: the manifest is append-only: every step leaves the records that were there
\* in place and in order, adding at most one at the end.
C14_ManifestAppendOnly ==
    [][/\ IsPrefix(manifest, manifest')
       /\ Len(manifest') <= Len(manifest) + 1]_vars

C14_Witness ==
    /\ Len(manifest) >= 3
    /\ \E i, j \in 1..Len(manifest) :
         manifest[i].status = "ready" /\ manifest[j].status = "failed" /\ i < j

\* C15: the master dataset only grows: every step leaves its rows as a prefix of the
\* new rows, never deletes the file, and changes it only as the replace step of a
\* merge whose upload holds the global lock.
C15_MasterOnlyGrows ==
    [][/\ IsPrefix(MasterRows, RowsOf(files'[MASTER_PARQUET]))
       /\ files[MASTER_PARQUET].exists => files'[MASTER_PARQUET].exists
       /\ files'[MASTER_PARQUET] # files[MASTER_PARQUET] =>
              \E u \in Uploads :
                  pc[u] = "replace" /\ pc'[u] = "unlock" /\ lock = u /\ lock' = u]_vars

C15_Witness ==
    \E u, v \in Uploads :
        /\ u # v
        /\ Done(u) /\ result[u] = "ok"
        /\ Done(v) /\ result[v] = "ok"
        /\ Len(MasterRows) = Len(Clean(u)) + Len(Clean(v))

\* the bytes parse and their columns resolve, so that the rows reach the row
\* normaliser, and no row survives it (no data row at all, or none valid)
EmptyBatch(b) ==
    /\ Body(b).parse
    /\ resolve_required_columns_from_df(b) = "ok"
    /\ normalise_dataframe(b) = << >>

C16_ByteReaderCap ==
    LET L == Len(rd.src)
        M == rd.cap
    IN  /\ rd.phase = "read" =>
             /\ rd.total = rd.pos /\ rd.total <= M
             /\ rd.chunks = SubSeq(rd.src, 1, rd.pos)
        /\ rd.returned => L <= M /\ rd.out = rd.src
        /\ L <= M => rd.err # "FILE_TOO_LARGE"
        /\ (L > M /\ rd.phase \notin {"suffix", "read"} /\ rd.err # "INVALID_FILE_TYPE")
              => rd.err = "FILE_TOO_LARGE"
        /\ rd.err = "FILE_TOO_LARGE" =>
             /\ rd.limit = M
             /\ rd.total > M /\ Len(rd.chunks) <= M
             /\ rd.total - Len(rd.chunks) <= CHUNK
             /\ rd.pos = rd.total
             /\ ~rd.returned /\ rd.out = << >> /\ rd.checksum = NoSum
        /\ (M = MAX_BYTES /\ rd.phase \notin {"suffix", "read"}
                /\ rd.err # "INVALID_FILE_TYPE") =>
             (rd.err = "FILE_TOO_LARGE" <=> ReadChunks(L, 0) = "FILE_TOO_LARGE")

\* a source longer than the cap has failed in the middle of the stream
C16_Witness ==
    /\ rd.err = "FILE_TOO_LARGE"
    /\ rd.cap = MAX_BYTES /\ Len(rd.chunks) > 0 /\ rd.pos < Len(rd.src)

\* C20: the suffix check comes before any read: a request whose filename is missing
\* or does not end in .csv fails with INVALID_FILE_TYPE with no byte of its source
\* consumed, no checksum computed, and the dataset and the manifest untouched; and
\* whenever a byte has been consumed the filename ends in .csv in some letter case.
C20_SuffixBeforeRead ==
    /\ (rd.name \in {"readme.md", ""} /\ rd.phase # "suffix") =>
          /\ rd.phase = "failed" /\ rd.err = "INVALID_FILE_TYPE"
          /\ rd.pos = 0 /\ rd.total = 0 /\ rd.chunks = << >> /\ ~rd.returned
          /\ rd.checksum = NoSum
          /\ files[MASTER_PARQUET] = NoFile /\ manifest = << >>
    /\ rd.phase = "suffix" => rd.pos = 0 /\ rd.checksum = NoSum
    /\ (rd.pos > 0 \/ rd.phase \in {"read", "joined", "checksummed"}) =>
          rd.name \in {"a.csv", "b.CSV"}

C20_Witness ==
    /\ rd.name = "readme.md" /\ Len(rd.src) > 0
    /\ rd.phase = "failed" /\ rd.err = "INVALID_FILE_TYPE"

\* every canonical field has a header that is one of its variants, ignoring case
Resolvable(cols) ==
    \A t \in REQUIRED_COLUMNS : \E h \in Elems(cols) : Lower(h) \in Variants(t)

\* C17: the resolver returns exactly when every canonical field has a header that
\* is one of its variants ignoring case, and then the mapping has exactly the five
\* canonical keys, each mapped to a header that is present and whose lower-case form
\* is a variant of the field; otherwise it raises MISSING_COLUMNS for a field that
\* has no such header and returns no mapping, not even a partial one.
C17_SchemaResolution ==
    /\ fn.phase = "returned" =>
          /\ Resolvable(fn.cols)
          /\ DOMAIN fn.out = REQUIRED_COLUMNS
          /\ \A t \in REQUIRED_COLUMNS :
                fn.out[t] \in Elems(fn.cols) /\ Lower(fn.out[t]) \in Variants(t)
    /\ fn.phase = "raised" =>
          /\ ~Resolvable(fn.cols)
          /\ fn.err = "MISSING_COLUMNS"
          /\ \A h \in Elems(fn.cols) : Lower(h) \notin Variants(fn.missing)
          /\ fn.out = NoMapping
    /\ fn.phase \in {"called", "loop"} => fn.out = NoMapping /\ fn.err = "none"

\* the headers of test_resolve_required_columns_ok_with_variants have resolved
C17_Witness ==
    /\ fn.phase = "returned"
    /\ fn.cols = <<"Transaction-ID", "User", "Product", "DateTime", "Amount">>
    /\ fn.out["transaction_id"] = "Transaction-ID"
    /\ fn.out["user_id"] = "User"
    /\ fn.out["product_id"] = "Product"
    /\ fn.out["timestamp"] = "DateTime"
    /\ fn.out["transaction_amount"] = "Amount"

\* the row has all five required fields non-empty after trimming, and its amount
\* and its timestamp parse
ValidRow(row, col_map) ==
    /\ \A t \in REQUIRED_COLUMNS : strip(row[col_map[t]]) # ""
    /\ IsNumeric(row[col_map["transaction_amount"]])
    /\ IsDatetime(row[col_map["timestamp"]])

\* the positions of the valid rows of df, ascending
RECURSIVE ValidIdx(_, _, _)
ValidIdx(df, col_map, i) ==
    IF i > Len(df) THEN << >>
    ELSE (IF ValidRow(df[i], col_map) THEN << i >> ELSE << >>)
            \o ValidIdx(df, col_map, i + 1)

C21_RoundedToHundredths ==
    fn.phase = "returned" =>
        /\ 10 * fn.out - fn.arg <= 5 /\ fn.arg - 10 * fn.out <= 5
        /\ fn.arg = 12345 => fn.out = 1234
        /\ fn.arg % 10 = 0 => 10 * fn.out = fn.arg

C21_Witness == fn.phase = "returned" /\ fn.arg = 12345 /\ fn.out = 1234

\* C22: a timestamp is persisted as the whole second of its UTC instant (the
\* fraction cut off, not rounded) with the Z designator; one already in that form
\* is persisted unchanged, and normalising the persisted value again gives it back.
C22_CanonicalTimestamp ==
    /\ fn.phase \in {"persisted", "renormalised"} =>
          /\ fn.out.tz = "Z" /\ fn.out.ms = 0
          /\ LET instant == (fn.arg.sec - utcoffset(fn.arg.tz)) * 1000 + fn.arg.ms
             IN  1000 * fn.out.sec <= instant /\ instant < 1000 * fn.out.sec + 1000
          /\ (fn.arg.tz = "Z" /\ fn.arg.ms = 0) => fn.out = fn.arg
    /\ fn.phase = "renormalised" => fn.again = fn.out

C22_Witness ==
    /\ fn.phase = "renormalised"
    /\ fn.arg = Timestamp(1, 999, "+01:00")
    /\ fn.out = Timestamp(1 - HOUR, 0, "Z")
    /\ fn.again = fn.out

\* C23: an upload whose checksum already has a ready record in the manifest goes
\* from the lookup straight to its return: it succeeds as a duplicate, and that step
\* takes no lock, changes no file and appends no record.
C23_DuplicateFastPath ==
    [][\A u \in Uploads :
          (pc[u] = "find" /\ pc'[u] # "find"
             /\ ReadyCount(sha256_bytes(bytesOf(u))) >= 1) =>
                /\ pc'[u] = "done" /\ result'[u] = "duplicate"
                /\ lock' = lock /\ files' = files /\ combined' = combined
                /\ manifest' = manifest
                /\ \A i \in 1..Len(manifest') : manifest'[i].by # u]_vars

C23_Witness ==
    \E u, v \in Uploads :
        /\ Done(u) /\ result[u] = "ok"
        /\ Done(v) /\ result[v] = "duplicate" /\ bytesOf(v) = bytesOf(u)
        /\ RecordsBy(v) = {}
        /\ Len(manifest) = 1 /\ MasterRows = Clean(u)

RECURSIVE SumReady(_)
SumReady(m) ==
    IF m = << >> THEN 0
    ELSE (IF Head(m).status = "ready" THEN Head(m).rows_appended ELSE 0) + SumReady(Tail(m))

RECURSIVE SumOver(_, _)
SumOver(f, S) ==
    IF S = {} THEN 0
    ELSE LET x == CHOOSE y \in S : TRUE IN f[x] + SumOver(f, S \ {x})

\* rows merged by uploads that have not yet appended their ready record
RowsInWindow ==
    SumOver([u \in Uploads |-> Len(Clean(u))],
            {u \in Uploads : pc[u] \in {"unlock", "ready"}})

C25_LockScope ==
    /\ [](\A u \in Uploads :
            /\ pc[u] \in {"idle", "find", "inner_except", "lock"} => lock # u
            /\ lock = u => pc[u] \in MergePcs /\ Validate(bytesOf(u)) = Ok)
    /\ [][\A u \in Uploads :
            (lock' = u /\ lock # u) => pc[u] = "lock" /\ pc'[u] = "read"]_vars

C25_Witness ==
    \E u, v \in Uploads :
        /\ lock = u /\ pc[u] = "write"
        /\ pc[v] = "find" /\ Validate(bytesOf(v)) = Ok

\* C26: the lock is released on every way out of the merge: whoever holds it is
\* inside the merge, and an upload that is handling an error, appending to the
\* manifest or finished does not hold it.
C26_LockReleased ==
    /\ lock # 0 => lock \in Uploads /\ pc[lock] \in MergePcs
    /\ \A u \in Uploads : pc[u] \in {"except", "ready", "done"} => lock # u

C26_Witness ==
    \E u, v \in Uploads :
        /\ pc[u] = "except" /\ result[u] = "INTERNAL_ERROR"
        /\ lock = v /\ pc[v] = "read"

\* C27: with fair scheduling and no crash, every upload that has started reaches a
\* terminal outcome: done as success or duplicate, rejected, or failed in the merge.
C27_EveryUploadTerminates ==
    \A u \in Uploads :
        (pc[u] # "idle") ~> (pc[u] = "done" /\ result[u] \in Failures \cup {"ok", "duplicate"})

C27_Witness ==
    /\ \A u \in Uploads : Done(u)
    /\ \E u, v \in Uploads : result[u] = "ok" /\ result[v] = "INTERNAL_ERROR"

\* the writers whose append_ingest has returned
Returned == {w \in Writers : fn.w[w].phase = "closed"}

\* C28: however the append_ingest calls interleave, the manifest holds exactly one
\* line per call that has returned, and every line is whole: the JSON text its
\* caller wrote followed by its own newline.
C28_ConcurrentAppendsIntact ==
    /\ Len(fn.file) = 2 * Cardinality(Returned)
    /\ \A w \in Returned :
          Cardinality({i \in 1..Len(fn.file) :
                          fn.file[i] = <<w, fn.w[w].status, "json">>}) = 1
    /\ \A i \in 1..Len(fn.file) :
          fn.file[i][3] = "json" =>
              /\ i < Len(fn.file)
              /\ fn.file[i + 1] = <<fn.file[i][1], fn.file[i][2], "\n">>
              /\ fn.file[i][1] \in Returned

\* all calls have returned, having overlapped: the last writer opened the file
\* first among them and its line is not the last one
C28_Witness ==
    /\ Returned = Writers
    /\ fn.w[NumWriters].pos = 0
    /\ fn.file[1][1] # NumWriters
    /\ fn.file[Len(fn.file)][1] # NumWriters

\* the positions of the ready records with checksum c among the lines
ReadyLines(lines) ==
    {i \in 1..Len(lines) :
        /\ lines[i].kind = "record"
        /\ lines[i].status = "ready" /\ lines[i].checksum_sha256 = "c"}

\* C29: the scan never raises, whatever the manifest holds; when it returns, it
\* returns the first well-formed ready record with the checksum if there is one
\* anywhere in the file, and None otherwise (also when the file is missing).
C29_ScanSkipsMalformed ==
    /\ fn.phase # "raised"
    /\ fn.phase = "returned" =>
          IF ReadyLines(fn.lines) = {}
          THEN fn.out = None
          ELSE fn.out = fn.lines[CHOOSE i \in ReadyLines(fn.lines) :
                                    \A j \in ReadyLines(fn.lines) : i <= j]

\* C30: in manifest order the ingest_ids strictly increase, so no two records
\* share one, also when several are appended within one clock second.
C30_IngestIdsIncrease ==
    \A i, j \in 1..Len(fn.ids) : i < j => fn.ids[i] < fn.ids[j]

\* the canonical fields that have no variant among the headers, ignoring case
MissingTargets(cols) ==
    {t \in REQUIRED_COLUMNS : \A h \in Elems(cols) : Lower(h) \notin Variants(t)}

\* C31: when schema resolution fails, the detail of the MISSING_COLUMNS error names
\* every canonical field that has no variant among the headers, and its expected
\* list is the five canonical fields.
C31_AllMissingNamed ==
    fn.phase = "raised" =>
        /\ fn.err = "MISSING_COLUMNS"
        /\ Elems(fn.detail.missing) = MissingTargets(fn.cols)
        /\ Elems(fn.detail.expected) = REQUIRED_COLUMNS

C33_SnapshotOfOneUpload ==
    (fn.op = "legacy" /\ fn.WRITE_CSV_LEGACY) =>
        LET final == fn.csv[FINAL_CSV_PATH]
        IN  /\ final.exists =>
                  /\ fn.last \in Uploads
                  /\ final.header
                  /\ final.rows = Clean(fn.last)
            /\ ((\A u \in Uploads : Done(u)) /\ (\E u \in Uploads : result[u] = "ok")) =>
                  /\ final.exists
                  /\ result[fn.last] = "ok"

\* two uploads with different rows have both succeeded, and the snapshot holds the
\* rows of the second only
C33_Witness ==
    /\ fn.op = "legacy" /\ fn.WRITE_CSV_LEGACY
    /\ \A u \in {1, 2} : Done(u) /\ result[u] = "ok"
    /\ Clean(1) # Clean(2)
    /\ fn.last = 2
    /\ fn.csv[FINAL_CSV_PATH] = to_csv(Clean(2))

====
